---- MODULE Spec2Model ----
(***************************************************************************)
(* LString (ext/common/DataStructures/LString.h): a string made of a       *)
(* singly-linked chain of parts that point into memory owned elsewhere.    *)
(*                                                                         *)
(* Pointers to parts are indices into `pool` (the psg_pool_t arena, which  *)
(* never frees), NULL is 0.  A `data` pointer is modelled by the bytes     *)
(* readable from it: the part's own bytes followed by whatever the memory  *)
(* region holds after them.  Bytes are small naturals, 0 is NUL.  Sizes    *)
(* are unsigned int in the source; the environment keeps them far below    *)
(* 2^32, so they are plain naturals here.                                  *)
(***************************************************************************)
EXTENDS Integers, Sequences, FiniteSets, TLC

VARIABLES pool, lstrs, refcount, appended, ret

vars == <<pool, lstrs, refcount, appended, ret>>

\* ------------------------------------------------------------------ bounds
\* Largest total size (in bytes) the environment lets one LString grow to.
MaxSize == 3
\* Largest number of parts the environment allocates from the arena.
MaxPool == 3
\* Largest number of LStrings psg_lstr_null_terminate is let to allocate.
MaxMat == 1
\* References the owners of a buffer block hold before any LString uses it.
InitRef == 1

\* ------------------------------------------------------------- data types
NULL == 0
NUL == 0
\* part->next of a part whose next field was never assigned
Uninit == -1

Bytes == {1, 2}
StrIds == {1, 2}
Blocks == {1, 2}

\* The bytes held by each mbuf_block.
BlockData(b) == IF b = 1 THEN <<1, 2>> ELSE <<2>>

RECURSIVE SeqsOfLen(_, _)
SeqsOfLen(S, n) ==
    IF n = 0 THEN {<<>>}
    ELSE {Append(s, x) : s \in SeqsOfLen(S, n - 1), x \in S}

SeqsUpTo(S, n) == UNION {SeqsOfLen(S, k) : k \in 0..n}

\* The bytes of s from (0-based) offset off to its end: the pointer s + off.
From(s, off) == SubSeq(s, off + 1, Len(s))

\* struct LString::Part
Part(next, mbuf_block, data, size) ==
    [next |-> next, mbuf_block |-> mbuf_block, data |-> data, size |-> size]

\* struct LString
LString(start, end, size) == [start |-> start, end |-> end, size |-> size]

\* The memory an operation works on: arena, LString structs, block refcounts.
Heap == [pool |-> pool, lstrs |-> lstrs, refcount |-> refcount]

\* ------------------------------------------------------------ collaborators
\* psg_palloc(pool, sizeof(LString::Part)): a fresh, uninitialised part.
psg_palloc_part(h) ==
    [h EXCEPT !.pool = Append(@, Part(Uninit, Uninit, <<>>, 0))]

\* mbuf_block_ref / mbuf_block_unref: the block's reference count.
mbuf_block_ref(h, b) == [h EXCEPT !.refcount[b] = @ + 1]

mbuf_block_unref(h, b) == [h EXCEPT !.refcount[b] = @ - 1]

\* strlen: the number of bytes before the first NUL.
RECURSIVE strlen(_)
strlen(data) ==
    IF data = <<>> \/ Head(data) = NUL THEN 0 ELSE 1 + strlen(From(data, 1))

\* -------------------------------------------------------------- operations
\* Mutant: only size is reset; start and end keep pointing at the old chain.
psg_lstr_init_keeps_chain(h, str) ==
    [h EXCEPT !.lstrs[str].size = 0]

psg_lstr_init(h, str) ==
    [h EXCEPT !.lstrs[str] = LString(NULL, NULL, 0)]

\* Mutant: the non-empty branch links the part but forgets str->end = part.
psg_lstr_append_part_keeps_end(h, str, part) ==
    LET h1 == IF h.lstrs[str].end = NULL
              THEN [h EXCEPT !.lstrs[str].start = part,
                             !.lstrs[str].end = part]
              ELSE [h EXCEPT !.pool[h.lstrs[str].end].next = part]
        h2 == [h1 EXCEPT !.lstrs[str].size = @ + h1.pool[part].size]
    IN  [h2 EXCEPT !.pool[part].next = NULL]

\* Mutant: str->size = part->size instead of str->size += part->size.
psg_lstr_append_part_sets_size(h, str, part) ==
    LET h1 == IF h.lstrs[str].end = NULL
              THEN [h EXCEPT !.lstrs[str].start = part,
                             !.lstrs[str].end = part]
              ELSE [h EXCEPT !.pool[h.lstrs[str].end].next = part,
                             !.lstrs[str].end = part]
        h2 == [h1 EXCEPT !.lstrs[str].size = h1.pool[part].size]
    IN  [h2 EXCEPT !.pool[part].next = NULL]

\* Mutant: the part is linked in front of the chain instead of behind it.
psg_lstr_append_part_at_head(h, str, part) ==
    LET h1 == IF h.lstrs[str].end = NULL
              THEN [h EXCEPT !.lstrs[str].start = part,
                             !.lstrs[str].end = part,
                             !.pool[part].next = NULL]
              ELSE [h EXCEPT !.pool[part].next = h.lstrs[str].start,
                             !.lstrs[str].start = part]
    IN  [h1 EXCEPT !.lstrs[str].size = @ + h1.pool[part].size]

psg_lstr_append_part(h, str, part) ==
    LET h1 == IF h.lstrs[str].end = NULL
              THEN [h EXCEPT !.lstrs[str].start = part,
                             !.lstrs[str].end = part]
              ELSE [h EXCEPT !.pool[h.lstrs[str].end].next = part,
                             !.lstrs[str].end = part]
        h2 == [h1 EXCEPT !.lstrs[str].size = @ + h1.pool[part].size]
    IN  [h2 EXCEPT !.pool[part].next = NULL]

\* Mutant: the block is referenced before the size is looked at.
psg_lstr_append_mbuf_range_refs_first(h, str, buffer, data, size) ==
    LET h0 == mbuf_block_ref(h, buffer.mbuf_block) IN
    IF size = 0 THEN h0
    ELSE LET h1 == psg_palloc_part(h0)
             part == Len(h1.pool)
             h2 == [h1 EXCEPT !.pool[part].mbuf_block = buffer.mbuf_block,
                              !.pool[part].data = data,
                              !.pool[part].size = size]
         IN  psg_lstr_append_part(h2, str, part)

\* Mutant: the part records its block but no reference is acquired on it.
psg_lstr_append_mbuf_range_no_ref(h, str, buffer, data, size) ==
    IF size = 0 THEN h
    ELSE LET h1 == psg_palloc_part(h)
             part == Len(h1.pool)
             h2 == [h1 EXCEPT !.pool[part].mbuf_block = buffer.mbuf_block,
                              !.pool[part].data = data,
                              !.pool[part].size = size]
         IN  psg_lstr_append_part(h2, str, part)

\* psg_lstr_append(str, pool, buffer, data, size)
psg_lstr_append_mbuf_range(h, str, buffer, data, size) ==
    IF size = 0 THEN h
    ELSE LET h1 == psg_palloc_part(h)
             part == Len(h1.pool)
             h2 == [h1 EXCEPT !.pool[part].mbuf_block = buffer.mbuf_block,
                              !.pool[part].data = data,
                              !.pool[part].size = size]
             h3 == mbuf_block_ref(h2, buffer.mbuf_block)
         IN  psg_lstr_append_part(h3, str, part)

\* psg_lstr_append(str, pool, buffer)
psg_lstr_append_mbuf(h, str, buffer) ==
    psg_lstr_append_mbuf_range(h, str, buffer,
        From(BlockData(buffer.mbuf_block), buffer.start), buffer.size)

\* psg_lstr_append(str, pool, data, size)
psg_lstr_append(h, str, data, size) ==
    IF size = 0 THEN h
    ELSE LET h1 == psg_palloc_part(h)
             part == Len(h1.pool)
             h2 == [h1 EXCEPT !.pool[part].next = NULL,
                              !.pool[part].mbuf_block = NULL,
                              !.pool[part].data = data,
                              !.pool[part].size = size]
         IN  psg_lstr_append_part(h2, str, part)

\* psg_lstr_append(str, pool, data)
psg_lstr_append_cstr(h, str, data) ==
    psg_lstr_append(h, str, data, strlen(data))

\* The parts psg_lstr_deinit's for loop visits, in order.  `fuel` bounds the
\* walk; a well-formed chain is shorter than the arena.
RECURSIVE ChainFrom(_, _, _)
ChainFrom(p, part, fuel) ==
    IF part = NULL \/ fuel = 0 THEN <<>>
    ELSE <<part>> \o ChainFrom(p, p[part].next, fuel - 1)

Chain(h, str) == ChainFrom(h.pool, h.lstrs[str].start, Len(h.pool) + 1)

RECURSIVE UnrefParts(_, _)
UnrefParts(h, parts) ==
    IF parts = <<>> THEN h
    ELSE LET part == Head(parts)
             h1 == IF h.pool[part].mbuf_block # NULL
                   THEN mbuf_block_unref(h, h.pool[part].mbuf_block)
                   ELSE h
         IN  UnrefParts(h1, From(parts, 1))

\* Mutant: the loop stops at the last part (part->next != NULL) and never
\* releases it.
psg_lstr_deinit_skips_last(h, str) ==
    LET parts == Chain(h, str)
    IN  psg_lstr_init(UnrefParts(h, SubSeq(parts, 1, Len(parts) - 1)), str)

psg_lstr_deinit(h, str) ==
    psg_lstr_init(UnrefParts(h, Chain(h, str)), str)

\* ---------------------------------------------------------- reading memory
\* Reading past the bytes known to lie behind a pointer yields OutOfBounds.
OutOfBounds == -2

\* p[i] for a char pointer p (0-based).
ByteAt(data, i) ==
    IF 0 <= i /\ i < Len(data) THEN data[i + 1] ELSE OutOfBounds

\* The n bytes at p + off.
Range(data, off, n) == [i \in 1..n |-> ByteAt(data, off + i - 1)]

\* memcmp(a + aoff, b + boff, n) == 0
memcmp_eq(a, aoff, b, boff, n) == Range(a, aoff, n) = Range(b, boff, n)

Min(a, b) == IF a < b THEN a ELSE b

Max(a, b) == IF a > b THEN a ELSE b

psg_lstr_first_byte(h, str) == ByteAt(h.pool[h.lstrs[str].start].data, 0)

psg_lstr_last_byte(h, str) ==
    LET e == h.pool[h.lstrs[str].end] IN ByteAt(e.data, e.size - 1)

\* ------------------------------------------------------- null termination
\* The bytes the memcpy loop of psg_lstr_null_terminate writes, in order.
RECURSIVE CopyParts(_, _)
CopyParts(p, parts) ==
    IF parts = <<>> THEN <<>>
    ELSE Range(p[Head(parts)].data, 0, p[Head(parts)].size)
         \o CopyParts(p, From(parts, 1))

\* Mutant: the new part counts the terminating NUL in its size.
psg_lstr_null_terminate_counts_nul(h, str) ==
    LET data == CopyParts(h.pool, Chain(h, str)) \o <<NUL>>
        h1 == [h EXCEPT !.lstrs = Append(@, LString(Uninit, Uninit, 0))]
        newstr == Len(h1.lstrs)
        h2 == psg_lstr_init(h1, newstr)
        h3 == psg_lstr_append(h2, newstr, data, h.lstrs[str].size + 1)
    IN  [h |-> h3, val |-> newstr]

\* Mutant: the buffer is size bytes long and *pos = 0 is never written.
psg_lstr_null_terminate_no_nul(h, str) ==
    LET data == CopyParts(h.pool, Chain(h, str))
        h1 == [h EXCEPT !.lstrs = Append(@, LString(Uninit, Uninit, 0))]
        newstr == Len(h1.lstrs)
        h2 == psg_lstr_init(h1, newstr)
        h3 == psg_lstr_append(h2, newstr, data, h.lstrs[str].size)
    IN  [h |-> h3, val |-> newstr]

\* Mutant: the new part takes over the buffer block of the first part of str.
psg_lstr_null_terminate_shares_block(h, str) ==
    LET data == CopyParts(h.pool, Chain(h, str)) \o <<NUL>>
        h1 == [h EXCEPT !.lstrs = Append(@, LString(Uninit, Uninit, 0))]
        newstr == Len(h1.lstrs)
        h2 == psg_lstr_init(h1, newstr)
        h3 == psg_lstr_append(h2, newstr, data, h.lstrs[str].size)
    IN  [h |-> IF h3.lstrs[newstr].start = NULL \/ h.lstrs[str].start = NULL
               THEN h3
               ELSE [h3 EXCEPT !.pool[h3.lstrs[newstr].start].mbuf_block =
                                   h.pool[h.lstrs[str].start].mbuf_block],
         val |-> newstr]

\* Returns the heap and the new LString (val).
psg_lstr_null_terminate(h, str) ==
    LET data == CopyParts(h.pool, Chain(h, str)) \o <<NUL>>
        h1 == [h EXCEPT !.lstrs = Append(@, LString(Uninit, Uninit, 0))]
        newstr == Len(h1.lstrs)
        h2 == psg_lstr_init(h1, newstr)
        h3 == psg_lstr_append(h2, newstr, data, h.lstrs[str].size)
    IN  [h |-> h3, val |-> newstr]

\* Mutant: the check for an empty or single-part string is missing.
psg_lstr_make_contiguous_always_copies(h, str) ==
    psg_lstr_null_terminate(h, str)

psg_lstr_make_contiguous(h, str) ==
    IF h.lstrs[str].size = 0 \/ h.lstrs[str].start = h.lstrs[str].end
    THEN [h |-> h, val |-> str]
    ELSE psg_lstr_null_terminate(h, str)

\* ------------------------------------------------------------- comparison
\* Mutant: the walk never advances b (b += part->size is missing).
RECURSIVE CmpStaticLoop_no_advance(_, _, _, _)
CmpStaticLoop_no_advance(p, parts, other, b) ==
    IF parts = <<>> THEN TRUE
    ELSE LET part == p[Head(parts)] IN
         IF ~memcmp_eq(part.data, 0, other, b, part.size) THEN FALSE
         ELSE CmpStaticLoop_no_advance(p, From(parts, 1), other, b)

\* psg_lstr_cmp(const LString *str, const StaticString &other)
\* The walk over the parts: `b` is the offset reached in other.
RECURSIVE CmpStaticLoop(_, _, _, _)
CmpStaticLoop(p, parts, other, b) ==
    IF parts = <<>> THEN TRUE
    ELSE LET part == p[Head(parts)] IN
         IF ~memcmp_eq(part.data, 0, other, b, part.size) THEN FALSE
         ELSE CmpStaticLoop(p, From(parts, 1), other, b + part.size)

psg_lstr_cmp_static(h, str, other) ==
    LET s == h.lstrs[str] IN
    IF s.size # Len(other) THEN FALSE
    ELSE IF s.size > 0
            /\ (psg_lstr_first_byte(h, str) # ByteAt(other, 0)
                \/ psg_lstr_last_byte(h, str) # ByteAt(other, Len(other) - 1))
    THEN FALSE
    ELSE CmpStaticLoop(h.pool, Chain(h, str), other, 0)

\* psg_lstr_cmp(const LString *str, const StaticString &other, unsigned int size)
RECURSIVE CmpBoundedLoop(_, _, _, _, _)
CmpBoundedLoop(p, parts, other, size, checked) ==
    IF parts = <<>> \/ ~(checked < size) THEN TRUE
    ELSE LET part == p[Head(parts)]
             localSize == Min(size - checked, part.size)
         IN  IF ~memcmp_eq(part.data, 0, other, checked, localSize) THEN FALSE
             ELSE CmpBoundedLoop(p, From(parts, 1), other, size,
                                 checked + localSize)

\* Mutant: the clamp takes the smaller of the two sizes.
ClampSize_min(h, str, other, size) ==
    IF size > h.lstrs[str].size /\ size > Len(other)
    THEN Min(h.lstrs[str].size, Len(other))
    ELSE size

\* Mutant: no clamp at all.
ClampSize_none(h, str, other, size) == size

\* The bound after the clamp of lines 218-220.
ClampSize(h, str, other, size) ==
    IF size > h.lstrs[str].size /\ size > Len(other)
    THEN Max(h.lstrs[str].size, Len(other))
    ELSE size

psg_lstr_cmp_bounded(h, str, other, n) ==
    LET s == h.lstrs[str]
        size == ClampSize(h, str, other, n)
    IN  IF size = 0 THEN TRUE
        ELSE IF s.size < size \/ Len(other) < size THEN FALSE
        ELSE IF psg_lstr_first_byte(h, str) # ByteAt(other, 0) THEN FALSE
        ELSE IF s.start = s.end
                /\ ByteAt(h.pool[s.start].data, size - 1) # ByteAt(other, size - 1)
        THEN FALSE
        ELSE CmpBoundedLoop(h.pool, Chain(h, str), other, size, 0)

\* Mutant: when part B is not at its end, b_start = b_end is missing, so the
\* next window of B starts where the last one did.
RECURSIVE CmpLoop_stale_b(_, _, _, _)
CmpLoop_stale_b(p, c, fuel, steps) ==
    LET a == p[c.a_part]
        b == p[c.b_part]
        seen == Append(steps, c)
        a_at_end == c.a_end = a.size
        b_at_end == c.b_end = b.size
    IN
    IF fuel = 0 THEN [outcome |-> "hang", steps |-> steps]
    ELSE IF ~memcmp_eq(a.data, c.a_start, b.data, c.b_start, c.chunklen)
    THEN [outcome |-> "false", steps |-> seen]
    ELSE IF a_at_end \/ b_at_end
    THEN IF (a_at_end /\ a.next = NULL) \/ (b_at_end /\ b.next = NULL)
         THEN IF a_at_end /\ b_at_end /\ a.next = NULL /\ b.next = NULL
              THEN [outcome |-> "true", steps |-> seen]
              ELSE [outcome |-> "assert", steps |-> seen]
         ELSE LET na == IF a_at_end
                        THEN [part |-> a.next, len |-> p[a.next].size, start |-> 0]
                        ELSE [part |-> c.a_part, len |-> a.size - c.a_end,
                              start |-> c.a_end]
                  nb == IF b_at_end
                        THEN [part |-> b.next, len |-> p[b.next].size, start |-> 0]
                        ELSE [part |-> c.b_part, len |-> b.size - c.b_end,
                              start |-> c.b_start]
                  chunklen == Min(na.len, nb.len)
              IN  CmpLoop_stale_b(p, [a_part |-> na.part, b_part |-> nb.part,
                              a_start |-> na.start, a_end |-> na.start + chunklen,
                              b_start |-> nb.start, b_end |-> nb.start + chunklen,
                              chunklen |-> chunklen],
                          fuel - 1, seen)
    ELSE CmpLoop_stale_b(p, c, fuel - 1, seen)

\* Mutant: the four assertions of the end-of-string branch are gone.
RECURSIVE CmpLoop_no_assert(_, _, _, _)
CmpLoop_no_assert(p, c, fuel, steps) ==
    LET a == p[c.a_part]
        b == p[c.b_part]
        seen == Append(steps, c)
        a_at_end == c.a_end = a.size
        b_at_end == c.b_end = b.size
    IN
    IF fuel = 0 THEN [outcome |-> "hang", steps |-> steps]
    ELSE IF ~memcmp_eq(a.data, c.a_start, b.data, c.b_start, c.chunklen)
    THEN [outcome |-> "false", steps |-> seen]
    ELSE IF a_at_end \/ b_at_end
    THEN IF (a_at_end /\ a.next = NULL) \/ (b_at_end /\ b.next = NULL)
         THEN [outcome |-> "true", steps |-> seen]
         ELSE LET na == IF a_at_end
                        THEN [part |-> a.next, len |-> p[a.next].size, start |-> 0]
                        ELSE [part |-> c.a_part, len |-> a.size - c.a_end,
                              start |-> c.a_end]
                  nb == IF b_at_end
                        THEN [part |-> b.next, len |-> p[b.next].size, start |-> 0]
                        ELSE [part |-> c.b_part, len |-> b.size - c.b_end,
                              start |-> c.b_end]
                  chunklen == Min(na.len, nb.len)
              IN  CmpLoop_no_assert(p, [a_part |-> na.part, b_part |-> nb.part,
                              a_start |-> na.start, a_end |-> na.start + chunklen,
                              b_start |-> nb.start, b_end |-> nb.start + chunklen,
                              chunklen |-> chunklen],
                          fuel - 1, seen)
    ELSE CmpLoop_no_assert(p, c, fuel - 1, seen)

\* psg_lstr_cmp(const LString *str, const LString *other): the while (true)
\* loop.  c holds the locals; a_start, a_end, b_start, b_end are offsets from
\* the data pointer of the current part.  The result is the outcome ("true",
\* "false", "assert" for a failed assertion, "hang" when fuel runs out) and
\* the windows compared, one per iteration.
RECURSIVE CmpLoop(_, _, _, _)
CmpLoop(p, c, fuel, steps) ==
    LET a == p[c.a_part]
        b == p[c.b_part]
        seen == Append(steps, c)
        a_at_end == c.a_end = a.size
        b_at_end == c.b_end = b.size
    IN
    IF fuel = 0 THEN [outcome |-> "hang", steps |-> steps]
    ELSE IF ~memcmp_eq(a.data, c.a_start, b.data, c.b_start, c.chunklen)
    THEN [outcome |-> "false", steps |-> seen]
    ELSE IF a_at_end \/ b_at_end
    THEN IF (a_at_end /\ a.next = NULL) \/ (b_at_end /\ b.next = NULL)
         THEN IF a_at_end /\ b_at_end /\ a.next = NULL /\ b.next = NULL
              THEN [outcome |-> "true", steps |-> seen]
              ELSE [outcome |-> "assert", steps |-> seen]
         ELSE LET na == IF a_at_end
                        THEN [part |-> a.next, len |-> p[a.next].size, start |-> 0]
                        ELSE [part |-> c.a_part, len |-> a.size - c.a_end,
                              start |-> c.a_end]
                  nb == IF b_at_end
                        THEN [part |-> b.next, len |-> p[b.next].size, start |-> 0]
                        ELSE [part |-> c.b_part, len |-> b.size - c.b_end,
                              start |-> c.b_end]
                  chunklen == Min(na.len, nb.len)
              IN  CmpLoop(p, [a_part |-> na.part, b_part |-> nb.part,
                              a_start |-> na.start, a_end |-> na.start + chunklen,
                              b_start |-> nb.start, b_end |-> nb.start + chunklen,
                              chunklen |-> chunklen],
                          fuel - 1, seen)
    ELSE CmpLoop(p, c, fuel - 1, seen)

\* Mutant: the first window is as long as the first part of str, without the
\* std::min against the first part of other.
CmpRun_no_min(h, str, other) ==
    LET s == h.lstrs[str]
        o == h.lstrs[other]
    IN
    IF s.size # o.size THEN [outcome |-> "false", steps |-> <<>>]
    ELSE IF s.size = 0 THEN [outcome |-> "true", steps |-> <<>>]
    ELSE IF s.size > 0
            /\ (psg_lstr_first_byte(h, str) # psg_lstr_first_byte(h, other)
                \/ psg_lstr_last_byte(h, str) # psg_lstr_last_byte(h, other))
    THEN [outcome |-> "false", steps |-> <<>>]
    ELSE LET chunklen == h.pool[s.start].size
         IN  CmpLoop(h.pool,
                     [a_part |-> s.start, b_part |-> o.start,
                      a_start |-> 0, a_end |-> chunklen,
                      b_start |-> 0, b_end |-> chunklen,
                      chunklen |-> chunklen],
                     2 * Len(h.pool) + 2, <<>>)

\* The run of psg_lstr_cmp(str, other) on two LStrings: outcome and windows.
CmpRun(h, str, other) ==
    LET s == h.lstrs[str]
        o == h.lstrs[other]
    IN
    IF s.size # o.size THEN [outcome |-> "false", steps |-> <<>>]
    ELSE IF s.size = 0 THEN [outcome |-> "true", steps |-> <<>>]
    ELSE IF s.size > 0
            /\ (psg_lstr_first_byte(h, str) # psg_lstr_first_byte(h, other)
                \/ psg_lstr_last_byte(h, str) # psg_lstr_last_byte(h, other))
    THEN [outcome |-> "false", steps |-> <<>>]
    ELSE LET chunklen == Min(h.pool[s.start].size, h.pool[o.start].size)
         IN  CmpLoop(h.pool,
                     [a_part |-> s.start, b_part |-> o.start,
                      a_start |-> 0, a_end |-> chunklen,
                      b_start |-> 0, b_end |-> chunklen,
                      chunklen |-> chunklen],
                     2 * Len(h.pool) + 2, <<>>)

psg_lstr_cmp(h, str, other) == CmpRun(h, str, other).outcome = "true"

\* ------------------------------------------------------------------- hash
\* Hasher: a streaming hash; update folds the bytes in one at a time, in
\* order, into a digest kept below HashMod.
Hasher_init == 0

HashMod == 1000003

RECURSIVE Hasher_update(_, _)
Hasher_update(hash, bytes) ==
    IF bytes = <<>> THEN hash
    ELSE Hasher_update((hash * 33 + Head(bytes)) % HashMod, From(bytes, 1))

Hasher_finalize(hash) == hash

RECURSIVE HashParts(_, _, _)
HashParts(p, parts, hash) ==
    IF parts = <<>> THEN hash
    ELSE HashParts(p, From(parts, 1),
             Hasher_update(hash, Range(p[Head(parts)].data, 0, p[Head(parts)].size)))

\* Mutant: only the first part is fed to the hasher.
psg_lstr_hash_first_part(h, str) ==
    Hasher_finalize(HashParts(h.pool,
        SubSeq(Chain(h, str), 1, Min(1, Len(Chain(h, str)))), Hasher_init))

psg_lstr_hash(h, str) ==
    Hasher_finalize(HashParts(h.pool, Chain(h, str), Hasher_init))

\* ----------------------------------------------------------------- inputs
\* A raw range: a pointer to exactly the bytes appended.
RawData == SeqsUpTo(Bytes, MaxSize)

\* A string literal, "a", that raw ranges and C strings may point into.
Literal == <<1, NUL>>

\* A C string: its bytes and the terminating NUL.
CStrData == {Append(d, NUL) : d \in SeqsUpTo(Bytes, MaxSize)}

\* An mbuf: a slice [start, start + size) of a block.
Mbufs ==
    UNION {UNION {{[mbuf_block |-> b, start |-> off, size |-> n] :
                      n \in 0..(Len(BlockData(b)) - off)} :
                  off \in 0..Len(BlockData(b))} :
           b \in Blocks}

\* The mbufs that span a whole block.
WholeMbufs == {m \in Mbufs : m.start = 0 /\ m.size = Len(BlockData(m.mbuf_block))}

\* The bytes of a part that a caller builds itself.
PartData == {<<1>>, <<2>>}

\* A contiguous view (StaticString) and a bound for the bounded comparison.
Views == SeqsUpTo(Bytes, MaxSize)

Bounds == 0..(MaxSize + 1)

\* ---------------------------------------------------------------- actions
Commit(h) ==
    /\ pool' = h.pool
    /\ lstrs' = h.lstrs
    /\ refcount' = h.refcount

\* The environment stops growing a string at MaxSize bytes ...
Fits(str, size) == lstrs[str].size + size <= MaxSize

\* ... and, where strings are torn down and built again, the arena at MaxPool
\* parts.
Room(str, size) == Fits(str, size) /\ Len(pool) < MaxPool

NoRet == [op |-> "init"]

Init ==
    /\ pool = <<>>
    /\ lstrs = [s \in StrIds |-> LString(NULL, NULL, 0)]
    /\ refcount = [b \in Blocks |-> InitRef]
    /\ appended = [s \in StrIds |-> 0]
    /\ ret = NoRet

AppendRaw(str, data, size) ==
    /\ Commit(psg_lstr_append(Heap, str, data, size))
    /\ appended' = [appended EXCEPT ![str] = @ + size]
    /\ ret' = [op |-> "append", str |-> str, size |-> size, block |-> NULL]

AppendCStr(str, data) ==
    /\ Commit(psg_lstr_append_cstr(Heap, str, data))
    /\ appended' = [appended EXCEPT ![str] = @ + strlen(data)]
    /\ ret' = [op |-> "append", str |-> str, size |-> strlen(data), block |-> NULL]

AppendMbufRange(str, buffer, off, size) ==
    /\ Commit(psg_lstr_append_mbuf_range(Heap, str, buffer,
                  From(BlockData(buffer.mbuf_block), buffer.start + off), size))
    /\ appended' = [appended EXCEPT ![str] = @ + size]
    /\ ret' = [op |-> "append", str |-> str, size |-> size,
               block |-> buffer.mbuf_block]

AppendMbuf(str, buffer) ==
    /\ Commit(psg_lstr_append_mbuf(Heap, str, buffer))
    /\ appended' = [appended EXCEPT ![str] = @ + buffer.size]
    /\ ret' = [op |-> "append", str |-> str, size |-> buffer.size,
               block |-> buffer.mbuf_block]

\* A caller allocates a part, fills it in (size may be anything, 0 too) and
\* hands it to psg_lstr_append_part.
AppendNewPart(str, data, size) ==
    LET h1 == psg_palloc_part(Heap)
        part == Len(h1.pool)
        h2 == [h1 EXCEPT !.pool[part].mbuf_block = NULL,
                         !.pool[part].data = data,
                         !.pool[part].size = size]
    IN  /\ Commit(psg_lstr_append_part(h2, str, part))
        /\ appended' = [appended EXCEPT ![str] = @ + size]
        /\ ret' = [op |-> "append_part", str |-> str, part |-> part, size |-> size]

\* A caller hands psg_lstr_append_part a part that is linked already.
AppendPart(str, part) ==
    /\ Commit(psg_lstr_append_part(Heap, str, part))
    /\ appended' = [appended EXCEPT ![str] = @ + pool[part].size]
    /\ ret' = [op |-> "append_part", str |-> str, part |-> part,
               size |-> pool[part].size]

Deinit(str) ==
    /\ Commit(psg_lstr_deinit(Heap, str))
    /\ appended' = [appended EXCEPT ![str] = 0]
    /\ ret' = [op |-> "deinit", str |-> str]

Cmp(str, other) ==
    /\ ret' = [op |-> "cmp", str |-> str, other |-> other,
               val |-> psg_lstr_cmp(Heap, str, other)]
    /\ UNCHANGED <<pool, lstrs, refcount, appended>>

CmpStatic(str, other) ==
    /\ ret' = [op |-> "cmp_static", str |-> str, other |-> other,
               val |-> psg_lstr_cmp_static(Heap, str, other)]
    /\ UNCHANGED <<pool, lstrs, refcount, appended>>

CmpBounded(str, other, size) ==
    /\ ret' = [op |-> "cmp_bounded", str |-> str, other |-> other, size |-> size,
               val |-> psg_lstr_cmp_bounded(Heap, str, other, size)]
    /\ UNCHANGED <<pool, lstrs, refcount, appended>>

Hash(str) ==
    /\ ret' = [op |-> "hash", str |-> str, val |-> psg_lstr_hash(Heap, str)]
    /\ UNCHANGED <<pool, lstrs, refcount, appended>>

MakeContiguous(str) ==
    LET r == psg_lstr_make_contiguous(Heap, str) IN
    /\ Commit(r.h)
    /\ appended' = IF r.val \in DOMAIN appended THEN appended
                   ELSE Append(appended, r.h.lstrs[r.val].size)
    /\ ret' = [op |-> "make_contiguous", str |-> str, val |-> r.val]

\* ---------------------------------------------------------- specifications
\* Life cycle of two LStrings sharing the arena and the buffer blocks.
Next ==
    \E str \in StrIds :
        \/ \E off \in 0..Len(Literal) : \E size \in 0..(Len(Literal) - off) :
               Room(str, size) /\ AppendRaw(str, From(Literal, off), size)
        \/ \E off \in 0..Len(Literal) :
               /\ Room(str, strlen(From(Literal, off)))
               /\ AppendCStr(str, From(Literal, off))
        \/ \E buffer \in Mbufs : Room(str, buffer.size) /\ AppendMbuf(str, buffer)
        \/ \E buffer \in WholeMbufs : \E off \in 0..buffer.size :
               \E size \in 0..(buffer.size - off) :
                   Room(str, size) /\ AppendMbufRange(str, buffer, off, size)
        \/ Deinit(str)

Spec == Init /\ [][Next]_vars

\* Two LStrings built from raw ranges of every content, then compared and
\* hashed.  The environment builds the first string before the second: the
\* order in which the parts of different strings leave the arena has no
\* bearing on a comparison.
NextCmp ==
    \E str \in StrIds :
        \/ \E data \in RawData \ {<<>>} :
               /\ Fits(str, Len(data))
               /\ \A t \in StrIds : t > str => lstrs[t].size = 0
               /\ AppendRaw(str, data, Len(data))
        \/ \E other \in StrIds : Cmp(str, other)
        \/ Hash(str)

SpecCmp == Init /\ [][NextCmp]_vars

\* One LString built from raw ranges of every content and compared with
\* contiguous views, in full and up to a bound.
NextStatic ==
    \/ \E data \in RawData \ {<<>>} :
           Fits(1, Len(data)) /\ AppendRaw(1, data, Len(data))
    \/ \E other \in Views : CmpStatic(1, other)
    \/ \E other \in Views : \E size \in Bounds : CmpBounded(1, other, size)

SpecStatic == Init /\ [][NextStatic]_vars

\* One LString built from raw and buffer-backed ranges, and made contiguous;
\* so are the LStrings that come out of it.
MatRoom(str) ==
    \/ psg_lstr_make_contiguous(Heap, str).val \in DOMAIN lstrs
    \/ Len(lstrs) < Cardinality(StrIds) + MaxMat

NextMat ==
    \/ \E data \in RawData \ {<<>>} :
           Fits(1, Len(data)) /\ AppendRaw(1, data, Len(data))
    \/ \E buffer \in Mbufs : Fits(1, buffer.size) /\ AppendMbuf(1, buffer)
    \/ \E str \in DOMAIN lstrs : MatRoom(str) /\ MakeContiguous(str)

SpecMat == Init /\ [][NextMat]_vars

\* Two LStrings that callers grow with psg_lstr_append_part itself, from new
\* parts and from parts that are linked already, and compare.
NextPart ==
    \E str \in StrIds :
        \/ \E data \in PartData : \E size \in {0, Len(data)} :
               /\ Len(pool) < MaxPool - 1
               /\ Fits(str, size)
               /\ AppendNewPart(str, data, size)
        \/ \E part \in 1..Len(pool) :
               Fits(str, pool[part].size) /\ AppendPart(str, part)
        \/ \E other \in StrIds : Cmp(str, other)

SpecPart == Init /\ [][NextPart]_vars

\* ------------------------------------------------------ what the claims use
\* The parts of str, walking next from start (at most one step per part of
\* the arena, and one more to tell a cycle).
PartsOf(str) == Chain(Heap, str)

PartSet(str) == {PartsOf(str)[i] : i \in 1..Len(PartsOf(str))}

IsEmpty(str) ==
    lstrs[str].size = 0 /\ lstrs[str].start = NULL /\ lstrs[str].end = NULL

RECURSIVE SumSizes(_)
SumSizes(parts) ==
    IF parts = <<>> THEN 0 ELSE pool[Head(parts)].size + SumSizes(From(parts, 1))

\* The parts of the arena that no LString reaches any more.
Garbage ==
    {p \in 1..Len(pool) :
        \A s \in DOMAIN lstrs : \A i \in 1..Len(PartsOf(s)) : PartsOf(s)[i] # p}

\* The number of parts of str that hold a reference on block b.
Backed(str, b) ==
    Cardinality({i \in 1..Len(PartsOf(str)) : pool[PartsOf(str)[i]].mbuf_block = b})

\* ------------------------------------------------------------------ claims
\* C2: after init and any sequence of appends whose lengths sum to L, size is
\* L, size is the sum of the sizes of the parts of the chain, and the value is
\* empty exactly when L = 0.
C2_SizeIsSumOfAppends ==
    \A s \in StrIds :
        /\ lstrs[s].size = appended[s]
        /\ lstrs[s].size = SumSizes(PartsOf(s))
        /\ IsEmpty(s) <=> appended[s] = 0

\* A string grown by a buffer-backed and an unbacked append, beside an empty one.
C2_Witness ==
    \E s \in StrIds : \E t \in StrIds :
        /\ appended[s] >= 3
        /\ \E i, j \in 1..Len(PartsOf(s)) :
               /\ pool[PartsOf(s)[i]].mbuf_block # NULL
               /\ pool[PartsOf(s)[j]].mbuf_block = NULL
        /\ appended[t] = 0 /\ IsEmpty(t)

\* C3: size = 0 iff start and end are NULL; no part of the chain has size 0;
\* the chain from start is acyclic, ends at end, and end->next is NULL.
C3_WellFormed ==
    \A s \in StrIds :
        LET parts == PartsOf(s) IN
        /\ lstrs[s].size = 0 <=> (lstrs[s].start = NULL /\ lstrs[s].end = NULL)
        /\ \A i \in 1..Len(parts) : pool[parts[i]].size > 0
        /\ Len(parts) <= Len(pool)
        /\ \A i, j \in 1..Len(parts) : i # j => parts[i] # parts[j]
        /\ parts = <<>> <=> lstrs[s].end = NULL
        /\ parts # <<>> =>
               /\ parts[Len(parts)] = lstrs[s].end
               /\ pool[lstrs[s].end].next = NULL

\* A string was torn down and left garbage while the other holds a chain of
\* two parts or more.
C3_Witness ==
    /\ ret.op = "deinit"
    /\ Garbage # {}
    /\ IsEmpty(ret.str)
    /\ \E s \in StrIds : Len(PartsOf(s)) >= 2

\* C4: psg_lstr_deinit releases one reference per part that holds a block (k
\* references of a block that backs k parts), none for the unbacked parts, and
\* leaves the value empty.
C4_DeinitReleasesPerPart ==
    [][\A s \in StrIds :
          (ret'.op = "deinit" /\ ret'.str = s) =>
              /\ refcount' = [b \in Blocks |-> refcount[b] - Backed(s, b)]
              /\ lstrs'[s] = LString(NULL, NULL, 0)
              /\ \A t \in StrIds \ {s} : lstrs'[t] = lstrs[t]]_vars

\* A value of two linked parts, one backed by a block and one unbacked, was
\* torn down: both are garbage and the block is back at its initial count.
C4_Witness ==
    /\ ret.op = "deinit"
    /\ IsEmpty(ret.str)
    /\ \E p, q \in Garbage : \E b \in Blocks :
           /\ pool[p].next = q \/ pool[q].next = p
           /\ pool[p].mbuf_block = b
           /\ pool[q].mbuf_block = NULL
           /\ refcount[b] = InitRef

\* The bytes of str: those of its parts, in chain order.
RECURSIVE Concat(_, _)
Concat(p, parts) ==
    IF parts = <<>> THEN <<>>
    ELSE SubSeq(p[Head(parts)].data, 1, p[Head(parts)].size)
         \o Concat(p, From(parts, 1))

ContentIn(h, str) == Concat(h.pool, Chain(h, str))

Content(str) == ContentIn(Heap, str)

\* The sizes of the parts of str, in chain order: its segmentation.
Segments(str) == [i \in 1..Len(PartsOf(str)) |-> pool[PartsOf(str)[i]].size]

Prefix(s, n) == SubSeq(s, 1, n)

\* C1: psg_lstr_cmp(A, B) is true exactly when the bytes of A's parts, in
\* chain order, are the bytes of B's parts, however each is segmented.
C1_CmpIsContentEquality ==
    ret.op = "cmp" => ret.val = (Content(ret.str) = Content(ret.other))

\* Two strings of two parts each, cut at different places, compared equal.
C1_Witness ==
    /\ ret.op = "cmp"
    /\ ret.val = TRUE
    /\ Len(PartsOf(ret.str)) >= 2
    /\ Len(PartsOf(ret.other)) >= 2
    /\ Segments(ret.str) # Segments(ret.other)

\* C5: the hash is that of the concatenated bytes of the parts, so two
\* strings that compare equal hash equal.
C5_HashOfEqualStrings ==
    ret.op = "hash" =>
        /\ ret.val = Hasher_finalize(Hasher_update(Hasher_init, Content(ret.str)))
        /\ \A t \in StrIds :
               psg_lstr_cmp(Heap, ret.str, t) => psg_lstr_hash(Heap, t) = ret.val

\* A string of several parts was hashed while the other, cut differently,
\* compares equal to it.
C5_Witness ==
    /\ ret.op = "hash"
    /\ \E t \in StrIds :
           /\ t # ret.str
           /\ psg_lstr_cmp(Heap, ret.str, t)
           /\ Len(PartsOf(ret.str)) >= 2
           /\ Segments(ret.str) # Segments(t)

\* C6: X compares equal to make_contiguous(X), and making the result
\* contiguous again yields the same bytes.
C6_MaterializeIdempotent ==
    ret.op = "make_contiguous" =>
        /\ psg_lstr_cmp(Heap, ret.str, ret.val)
        /\ LET again == psg_lstr_make_contiguous(Heap, ret.val)
           IN  ContentIn(again.h, again.val) = Content(ret.val)

\* A string of two parts or more was made contiguous into a new LString.
C6_Witness ==
    /\ ret.op = "make_contiguous"
    /\ Len(PartsOf(ret.str)) >= 2
    /\ ret.val # ret.str
    /\ Len(PartsOf(ret.val)) = 1

\* The value v is one buffer holding the bytes of x, of x's size, followed by
\* a NUL that its size does not count.
NulTerminatedCopy(v, x) ==
    /\ lstrs[v].start # NULL
    /\ lstrs[v].start = lstrs[v].end
    /\ lstrs[v].size = lstrs[x].size
    /\ pool[lstrs[v].start].size = lstrs[x].size
    /\ Range(pool[lstrs[v].start].data, 0, lstrs[x].size) = Content(x)
    /\ ByteAt(pool[lstrs[v].start].data, lstrs[x].size) = NUL

\* C7 as claimed: for every X, make_contiguous(X) is a single buffer with X's
\* bytes, of X's size, followed by a NUL.  A byte past what is known to lie
\* behind the pointer counts in the claim's favour here.
C7_Original ==
    ret.op = "make_contiguous" =>
        /\ lstrs[ret.val].start # NULL
        /\ lstrs[ret.val].start = lstrs[ret.val].end
        /\ lstrs[ret.val].size = lstrs[ret.str].size
        /\ Range(pool[lstrs[ret.val].start].data, 0, lstrs[ret.str].size)
               = Content(ret.str)
        /\ ByteAt(pool[lstrs[ret.val].start].data, lstrs[ret.str].size)
               \in {NUL, OutOfBounds}

\* C7 as amended: that holds for an X of two parts or more; an empty or
\* single-part X is returned as it is.
C7_Amended ==
    ret.op = "make_contiguous" =>
        IF Len(PartsOf(ret.str)) >= 2
        THEN ret.val # ret.str /\ NulTerminatedCopy(ret.val, ret.str)
        ELSE ret.val = ret.str

\* A string of two parts, one of them buffer-backed, was made contiguous.
C7_Witness ==
    /\ ret.op = "make_contiguous"
    /\ Len(PartsOf(ret.str)) >= 2
    /\ \E i \in 1..Len(PartsOf(ret.str)) : pool[PartsOf(ret.str)[i]].mbuf_block # NULL
    /\ NulTerminatedCopy(ret.val, ret.str)

\* C8: the full comparison with a view is true exactly when the sizes are
\* equal and the bytes of the parts are the bytes of the view; the first and
\* last byte checks do not change what the walk over the parts decides.
C8_CmpStaticIsEquality ==
    ret.op = "cmp_static" =>
        /\ ret.val = (lstrs[ret.str].size = Len(ret.other)
                      /\ Content(ret.str) = ret.other)
        /\ lstrs[ret.str].size = Len(ret.other) =>
               ret.val = CmpStaticLoop(pool, PartsOf(ret.str), ret.other, 0)

\* A string of two parts or more compared equal to a view.
C8_Witness ==
    /\ ret.op = "cmp_static"
    /\ ret.val = TRUE
    /\ Len(PartsOf(ret.str)) >= 2
    /\ Len(ret.other) >= 3

\* The bound the claims speak of: n, or the larger size when n exceeds both.
Clamped(str, other, n) ==
    IF n > lstrs[str].size /\ n > Len(other)
    THEN (IF lstrs[str].size > Len(other) THEN lstrs[str].size ELSE Len(other))
    ELSE n

\* C9: with n' the clamped bound, the bounded comparison is true when n' = 0,
\* false when either operand is shorter than n', and otherwise true exactly
\* when the first n' bytes of both agree.
C9_CmpBounded ==
    ret.op = "cmp_bounded" =>
        LET n == Clamped(ret.str, ret.other, ret.size) IN
        ret.val = IF n = 0 THEN TRUE
                  ELSE IF lstrs[ret.str].size < n \/ Len(ret.other) < n THEN FALSE
                  ELSE Prefix(Content(ret.str), n) = Prefix(ret.other, n)

\* A proper prefix that crosses a part boundary compared equal although the
\* operands differ after it.
C9_Witness ==
    /\ ret.op = "cmp_bounded"
    /\ ret.val = TRUE
    /\ Len(PartsOf(ret.str)) >= 2
    /\ ret.size > pool[lstrs[ret.str].start].size
    /\ ret.size < lstrs[ret.str].size
    /\ Len(ret.other) = lstrs[ret.str].size
    /\ Content(ret.str) # ret.other

\* C10 as claimed: when n exceeds both sizes, the result is true exactly when
\* the operands agree on their first min(S.size, V.size) bytes.
C10_Original ==
    (ret.op = "cmp_bounded"
     /\ ret.size > lstrs[ret.str].size /\ ret.size > Len(ret.other)) =>
        LET m == IF lstrs[ret.str].size < Len(ret.other)
                 THEN lstrs[ret.str].size ELSE Len(ret.other)
        IN  ret.val = (Prefix(Content(ret.str), m) = Prefix(ret.other, m))

\* C10 as amended: when n exceeds both sizes, the result is true exactly when
\* the operands have the same size and the same bytes.
C10_Amended ==
    (ret.op = "cmp_bounded"
     /\ ret.size > lstrs[ret.str].size /\ ret.size > Len(ret.other)) =>
        ret.val = (lstrs[ret.str].size = Len(ret.other)
                   /\ Content(ret.str) = ret.other)

\* With a bound above both sizes, a view that extends the string by one byte
\* compared unequal, and (another run) a view equal to the string would not.
C10_Witness ==
    /\ ret.op = "cmp_bounded"
    /\ ret.size > lstrs[ret.str].size /\ ret.size > Len(ret.other)
    /\ lstrs[ret.str].size >= 2
    /\ Len(ret.other) = lstrs[ret.str].size + 1
    /\ Prefix(ret.other, lstrs[ret.str].size) = Content(ret.str)
    /\ ret.val = FALSE

\* C11: appending a zero-length range, raw or buffer-backed, creates no part,
\* leaves start, end and size as they were and takes no reference.
C11_ZeroAppendIsNoOp ==
    [][(ret'.op = "append" /\ ret'.size = 0) =>
          /\ pool' = pool
          /\ lstrs' = lstrs
          /\ refcount' = refcount]_vars

\* A zero-length buffer-backed range was appended to a string that has parts.
C11_Witness ==
    /\ ret.op = "append"
    /\ ret.size = 0
    /\ ret.block # NULL
    /\ lstrs[ret.str].size > 0
    /\ refcount[ret.block] = InitRef + Backed(1, ret.block) + Backed(2, ret.block)

\* C12: psg_lstr_cmp(A, B) = psg_lstr_cmp(B, A).
C12_CmpSymmetric ==
    ret.op = "cmp" => ret.val = psg_lstr_cmp(Heap, ret.other, ret.str)

\* Two different strings of equal size, cut differently and equal in their
\* first and last bytes, went through the loop and compared unequal.
C12_Witness ==
    /\ ret.op = "cmp"
    /\ ret.str # ret.other
    /\ ret.val = FALSE
    /\ lstrs[ret.str].size = lstrs[ret.other].size
    /\ Segments(ret.str) # Segments(ret.other)
    /\ Len(CmpRun(Heap, ret.str, ret.other).steps) >= 2

\* C13 as claimed: a second psg_lstr_deinit of a value whose parts held
\* references releases references again.
C13_Original ==
    [][\A s \in StrIds :
          (ret'.op = "deinit" /\ ret'.str = s /\ \E b \in Blocks : Backed(s, b) > 0) =>
              psg_lstr_deinit([pool |-> pool', lstrs |-> lstrs',
                               refcount |-> refcount'], s).refcount # refcount']_vars

\* C13 as amended: psg_lstr_deinit leaves the value empty, so a second call
\* on it walks no part, releases nothing and changes nothing.
C13_Amended ==
    ret.op = "deinit" => psg_lstr_deinit(Heap, ret.str) = Heap

\* A value was torn down, a part that held a block is garbage, and the
\* blocks are back at their initial counts.
C13_Witness ==
    /\ ret.op = "deinit"
    /\ \A s \in StrIds : IsEmpty(s)
    /\ \E p \in Garbage : pool[p].mbuf_block # NULL
    /\ \A b \in Blocks : refcount[b] = InitRef

\* The heap after the step.
HeapAfter == [pool |-> pool', lstrs |-> lstrs', refcount |-> refcount']

\* The step leaves the LString struct of str, its chain and its parts alone.
SameValue(str) ==
    /\ lstrs'[str] = lstrs[str]
    /\ Chain(HeapAfter, str) = PartsOf(str)
    /\ \A i \in 1..Len(PartsOf(str)) : pool'[PartsOf(str)[i]] = pool[PartsOf(str)[i]]

\* C14 as claimed: for every X, tearing down make_contiguous(X) changes no
\* refcount and leaves X as it is, and the call changes neither X nor a
\* refcount.
C14_Original ==
    [][ret'.op = "make_contiguous" =>
          LET torn == psg_lstr_deinit(HeapAfter, ret'.val) IN
          /\ SameValue(ret'.str)
          /\ refcount' = refcount
          /\ torn.refcount = refcount'
          /\ torn.lstrs[ret'.str] = lstrs[ret'.str]]_vars

\* C14 as amended: the call changes neither X nor a refcount; for an X of
\* two parts or more the result is another value, whose teardown changes no
\* refcount and leaves X as it is; for an empty or single-part X the result
\* is X itself, so its teardown is the teardown of X.
C14_Amended ==
    [][ret'.op = "make_contiguous" =>
          LET torn == psg_lstr_deinit(HeapAfter, ret'.val) IN
          /\ SameValue(ret'.str)
          /\ refcount' = refcount
          /\ IF Len(PartsOf(ret'.str)) >= 2
             THEN /\ ret'.val # ret'.str
                  /\ torn.refcount = refcount'
                  /\ torn.lstrs[ret'.str] = lstrs[ret'.str]
             ELSE /\ ret'.val = ret'.str
                  /\ torn = psg_lstr_deinit(Heap, ret'.str)]_vars

\* A string of several parts, one of them holding a block, was made
\* contiguous: the result is another value with no block, and the block's
\* count is what the string's parts account for.
C14_Witness ==
    /\ ret.op = "make_contiguous"
    /\ ret.val # ret.str
    /\ \E b \in Blocks :
           /\ Backed(ret.str, b) >= 1
           /\ refcount[b] = InitRef + Backed(ret.str, b)
    /\ \A i \in 1..Len(PartsOf(ret.val)) : pool[PartsOf(ret.val)[i]].mbuf_block = NULL

\* C15: an empty or single-part value comes back as it is, with nothing
\* allocated and nothing copied; a value of two parts or more comes back as a
\* newly allocated LString with one newly allocated part.
C15_ContiguousReturnedAsIs ==
    [][ret'.op = "make_contiguous" =>
          IF Len(PartsOf(ret'.str)) <= 1
          THEN /\ ret'.val = ret'.str
               /\ pool' = pool
               /\ lstrs' = lstrs
               /\ refcount' = refcount
          ELSE /\ ret'.val = Len(lstrs) + 1
               /\ Len(lstrs') = Len(lstrs) + 1
               /\ Len(pool') = Len(pool) + 1
               /\ lstrs'[ret'.val].start = Len(pool')]_vars

\* A single buffer-backed part was made contiguous and came back as itself:
\* no LString and no part was allocated.
C15_Witness ==
    /\ ret.op = "make_contiguous"
    /\ ret.val = ret.str
    /\ Len(PartsOf(ret.str)) = 1
    /\ pool[lstrs[ret.str].start].mbuf_block # NULL
    /\ Len(pool) = 1
    /\ Len(lstrs) = Cardinality(StrIds)

\* C16: psg_lstr_append_part called with a part whose size is 0 fails an
\* assertion, so the part is never linked into the string.  The code has no
\* such assertion: the empty part becomes the string's last part.
C16_Claim ==
    (ret.op = "append_part" /\ ret.size = 0) =>
        ret.part \notin PartSet(ret.str)

\* A cursor of the comparison loop: a window of chunklen bytes, not empty,
\* inside a part of the operand's chain.
WindowInPart(str, part, start, end, chunklen) ==
    /\ part \in PartSet(str)
    /\ chunklen > 0
    /\ 0 <= start
    /\ end = start + chunklen
    /\ end <= pool[part].size

\* The cursor is at the end of the last part of its operand.
Exhausted(part, end) == end = pool[part].size /\ pool[part].next = NULL

\* C17: psg_lstr_cmp on well-formed operands of equal non-zero size compares,
\* in every iteration, a non-empty window inside the current part of either
\* operand; a cursor moves to a next part only when there is one; the loop
\* ends; and when it returns true both cursors are at the end of their last
\* part, so none of the four assertions fails.
C17_CmpLoopStaysInParts ==
    (ret.op = "cmp" /\ lstrs[ret.str].size = lstrs[ret.other].size
                    /\ lstrs[ret.str].size > 0) =>
        LET run == CmpRun(Heap, ret.str, ret.other)
            n == Len(run.steps)
        IN  /\ run.outcome \in {"true", "false"}
            /\ \A i \in 1..n :
                   LET c == run.steps[i]
                   IN  /\ WindowInPart(ret.str, c.a_part, c.a_start, c.a_end,
                                       c.chunklen)
                       /\ WindowInPart(ret.other, c.b_part, c.b_start, c.b_end,
                                       c.chunklen)
            /\ \A i \in 1..(n - 1) :
                   LET c == run.steps[i]
                       d == run.steps[i + 1]
                   IN  /\ d.a_part # c.a_part =>
                              d.a_part = pool[c.a_part].next /\ d.a_part # NULL
                       /\ d.b_part # c.b_part =>
                              d.b_part = pool[c.b_part].next /\ d.b_part # NULL
            /\ run.outcome = "true" =>
                   /\ n > 0
                   /\ Exhausted(run.steps[n].a_part, run.steps[n].a_end)
                   /\ Exhausted(run.steps[n].b_part, run.steps[n].b_end)

\* Equal strings cut differently: the loop returns true after a cursor moved
\* to a next part while the other stayed inside its part.
C17_Witness ==
    /\ ret.op = "cmp" /\ ret.str # ret.other /\ ret.val
    /\ LET run == CmpRun(Heap, ret.str, ret.other)
       IN  /\ Len(run.steps) >= 2
           /\ \E i \in 1..(Len(run.steps) - 1) :
                  /\ run.steps[i + 1].a_part # run.steps[i].a_part
                  /\ run.steps[i + 1].b_part = run.steps[i].b_part

\* C18: with the strings sharing blocks, under any interleaving of
\* block-backed appends, raw appends and teardowns, the refcount of every block
\* is its initial count plus the number of parts of live strings that
\* reference it; so it never drops below the initial count and is never zero
\* while a live part references the block.
C18_RefcountCountsLiveParts ==
    \A b \in Blocks :
        LET live == Backed(1, b) + Backed(2, b)
        IN  /\ refcount[b] = InitRef + live
            /\ refcount[b] >= InitRef
            /\ live > 0 => refcount[b] > 0

\* Both strings hold a part on the same block, after a teardown of a string
\* that held a part on that block too.
C18_Witness ==
    \E b \in Blocks :
        /\ Backed(1, b) > 0 /\ Backed(2, b) > 0
        /\ \E p \in Garbage : pool[p].mbuf_block = b
        /\ refcount[b] = InitRef + 2

\* What an append of the non-empty range bytes, backed by block (or by none,
\* NULL), does to str: one new part, linked behind the old chain; the old
\* parts keep their data, size and block, and all but the old tail their next
\* too; start moves only if the chain was empty; the other strings are left
\* alone; the content grows by bytes.
AppendEffect(str, bytes, block) ==
    LET old == PartsOf(str)
        new == Len(pool')
    IN  /\ Len(pool') = Len(pool) + 1
        /\ Chain(HeapAfter, str) = Append(old, new)
        /\ \A p \in 1..Len(pool) :
               /\ pool'[p].data = pool[p].data
               /\ pool'[p].size = pool[p].size
               /\ pool'[p].mbuf_block = pool[p].mbuf_block
               /\ p # lstrs[str].end => pool'[p].next = pool[p].next
        /\ pool'[new].size = Len(bytes)
        /\ pool'[new].mbuf_block = block
        /\ lstrs'[str].start = (IF old = <<>> THEN new ELSE lstrs[str].start)
        /\ lstrs'[str].end = new
        /\ ContentIn(HeapAfter, str) = Content(str) \o bytes
        /\ \A t \in StrIds \ {str} : SameValue(t)

\* C19: appending a non-empty range, through any of the overloads, adds exactly
\* one new part at the tail of the chain: data, size and block of every
\* existing part and their order are unchanged, start is unchanged unless the
\* string was empty, and the content is the old content followed by the
\* appended bytes.
C19_AppendAddsOneTailPart ==
    [][(ret'.op = "append" /\ ret'.size > 0) =>
        LET str == ret'.str
            size == ret'.size
        IN
        /\ \A off \in 0..Len(Literal) :
               (/\ ret'.block = NULL
                /\ size <= Len(Literal) - off
                /\ AppendRaw(str, From(Literal, off), size)) =>
                   AppendEffect(str, SubSeq(Literal, off + 1, off + size), NULL)
        /\ \A off \in 0..Len(Literal) :
               (/\ ret'.block = NULL
                /\ size = strlen(From(Literal, off))
                /\ AppendCStr(str, From(Literal, off))) =>
                   AppendEffect(str, SubSeq(Literal, off + 1, off + size), NULL)
        /\ \A buffer \in Mbufs :
               (/\ ret'.block = buffer.mbuf_block
                /\ size = buffer.size
                /\ AppendMbuf(str, buffer)) =>
                   AppendEffect(str,
                       SubSeq(BlockData(buffer.mbuf_block), buffer.start + 1,
                              buffer.start + size),
                       buffer.mbuf_block)
        /\ \A buffer \in WholeMbufs : \A off \in 0..buffer.size :
               (/\ ret'.block = buffer.mbuf_block
                /\ size <= buffer.size - off
                /\ AppendMbufRange(str, buffer, off, size)) =>
                   AppendEffect(str,
                       SubSeq(BlockData(buffer.mbuf_block),
                              buffer.start + off + 1,
                              buffer.start + off + size),
                       buffer.mbuf_block)
      ]_vars

\* A block-backed range was appended behind an unbacked part: the string has
\* two parts or more and the newest part of the arena is its tail.
C19_Witness ==
    /\ ret.op = "append" /\ ret.size > 0 /\ ret.block # NULL
    /\ Len(PartsOf(ret.str)) >= 2
    /\ lstrs[ret.str].end = Len(pool)
    /\ pool[lstrs[ret.str].start].mbuf_block = NULL
    /\ pool[lstrs[ret.str].end].mbuf_block = ret.block

\* The declared size of str is not the sum of the sizes of its parts.
Malformed(str) == lstrs[str].size # SumSizes(PartsOf(str))

NonEmptyParts(str) == \A p \in PartSet(str) : pool[p].size > 0

\* C20: psg_lstr_cmp on operands of equal declared size, with non-empty parts,
\* of which one at least has a declared size that is not the sum of its
\* parts, never follows a NULL next pointer and never returns true while an
\* operand has bytes left: it returns false on a mismatch, true when both are
\* exhausted at once, and fails an assertion when one is exhausted before the
\* other.
C20_CmpOnMalformed ==
    (/\ ret.op = "cmp"
     /\ lstrs[ret.str].size = lstrs[ret.other].size
     /\ Malformed(ret.str) \/ Malformed(ret.other)
     /\ NonEmptyParts(ret.str) /\ NonEmptyParts(ret.other)) =>
        LET run == CmpRun(Heap, ret.str, ret.other)
            n == Len(run.steps)
            last == run.steps[n]
            a_done == Exhausted(last.a_part, last.a_end)
            b_done == Exhausted(last.b_part, last.b_end)
        IN  /\ run.outcome \in {"true", "false", "assert"}
            /\ \A i \in 1..n :
                   /\ run.steps[i].a_part \in PartSet(ret.str)
                   /\ run.steps[i].b_part \in PartSet(ret.other)
            /\ run.outcome = "true" => n > 0 /\ a_done /\ b_done
            /\ run.outcome = "assert" => n > 0 /\ a_done # b_done
            /\ (run.outcome = "false" /\ n > 0) =>
                   ~memcmp_eq(pool[last.a_part].data, last.a_start,
                              pool[last.b_part].data, last.b_start, last.chunklen)
            /\ ret.val = (run.outcome = "true")

\* A string of declared size 2 whose chain holds one byte only is compared with
\* a string that has two bytes in two parts, the first bytes being equal: the
\* first runs out before the second and an assertion fails.
C20_Witness ==
    /\ ret.op = "cmp" /\ ~ret.val
    /\ lstrs[ret.str].size = lstrs[ret.other].size
    /\ Malformed(ret.str) /\ ~Malformed(ret.other)
    /\ NonEmptyParts(ret.str) /\ NonEmptyParts(ret.other)
    /\ CmpRun(Heap, ret.str, ret.other).outcome = "assert"
====
